---- MODULE Spec2Model ----
(***************************************************************************)
(* The task store of Dtshah17/TaskTracker and its persistence contract.    *)
(*                                                                         *)
(* The repository holds two source files.  src/testfile.py is the complete *)
(* program (Task, TaskTracker, CLI); src/TaskTracker.py is the published   *)
(* draft of the same classes, whose store stops at load/save/next id.      *)
(* A store instance is built from either module; the backing file is       *)
(* shared by every instance.                                               *)
(*                                                                         *)
(* Python values are kept apart by a tag: a JSON string "todo" is not the  *)
(* enumeration member TaskStatus.TODO, and JSON null is neither.  A dict   *)
(* is modelled as a sequence of [k, v] pairs in insertion order, which is  *)
(* the order json.dump writes and json.load reads.                         *)
(***************************************************************************)
EXTENDS Integers, Sequences, FiniteSets, TLC

\* ---------------------------------------------------------------- bounds
\* add is not offered once the next id would exceed MaxId
MaxId == 3
\* number of operations (constructions, exits, store calls) in one behaviour
MaxOps == 4

Stores == {"A", "B"}
\* descriptions handed to add and update
Descs == {"a", "b"}
\* values datetime.now().isoformat() may return
Times == {"t1", "t2"}
\* ids handed to update, delete and the mark operations
ArgIds == 1..MaxId

\* ---------------------------------------------------------------- values
JStr(s) == [t |-> "str", v |-> s]
JNull == [t |-> "null", v |-> ""]
Member(n) == [t |-> "TaskStatus", v |-> n]

TODO == Member("TODO")
IN_PROGRESS == Member("IN_PROGRESS")
DONE == Member("DONE")
Members == {TODO, IN_PROGRESS, DONE}

\* member.value
StatusValue(m) ==
  CASE m = TODO -> "todo"
    [] m = IN_PROGRESS -> "in-progress"
    [] m = DONE -> "done"

\* TaskStatus(x): lookup of a member by value; a member passes through
IsStatus(x) == x \in Members \/ (x.t = "str" /\ x.v \in {"todo", "in-progress", "done"})

TaskStatus(x) ==
  IF x \in Members THEN x
  ELSE CASE x.v = "todo" -> TODO
         [] x.v = "in-progress" -> IN_PROGRESS
         [] x.v = "done" -> DONE

\* str(n) of an integer and int(s) of such a string
str(n) == ToString(n)

int(s) == CHOOSE n \in 0..(MaxId + 1) : str(n) = s

\* ---------------------------------------------------------------- dict
DictKeys(d) == {d[i].k : i \in 1..Len(d)}

DictHas(d, k) == k \in DictKeys(d)

DictIndex(d, k) == CHOOSE i \in 1..Len(d) : d[i].k = k

DictGet(d, k) == d[DictIndex(d, k)].v

\* d[k] = v: an existing key keeps its position
DictSet(d, k, v) ==
  IF DictHas(d, k)
  THEN [d EXCEPT ![DictIndex(d, k)] = [k |-> k, v |-> v]]
  ELSE Append(d, [k |-> k, v |-> v])

\* del d[k]
DictDel(d, k) ==
  LET i == DictIndex(d, k)
  IN SubSeq(d, 1, i - 1) \o SubSeq(d, i + 1, Len(d))

\* ---------------------------------------------------------------- file
\* The backing file: absent, text json.load rejects, a JSON document
\* that is no object, or an object (a dict of key -> value).
Absent == [kind |-> "absent", data |-> <<>>]
Garbage == [kind |-> "garbage", data |-> <<>>]
NonObject == [kind |-> "nonobject", data |-> <<>>]
Object(d) == [kind |-> "object", data |-> d]

\* a value of the object: a task record, a record lacking a key, a scalar
Rec(id, desc, status, created) ==
  [shape |-> "record", id |-> id, description |-> desc, status |-> status,
   created_at |-> created]
NoField == [shape |-> "nofield", id |-> 0, description |-> "", status |-> JNull,
            created_at |-> ""]
Scalar == [shape |-> "scalar", id |-> 0, description |-> "", status |-> JNull,
           created_at |-> ""]

E(k, v) == [k |-> k, v |-> v]

\* the files a store may find when it is constructed
InitFiles ==
  { Absent, Garbage, NonObject,
    Object(<<>>),
    Object(<<E("1", Rec(1, "a", JStr("todo"), "t0"))>>),
    Object(<<E("2", Rec(2, "b", JStr("done"), "t0")),
             E("1", Rec(1, "a", JStr("in-progress"), "t0"))>>),
    Object(<<E("9", Rec(1, "a", JStr("todo"), "")),
             E("8", Rec(1, "b", JStr("done"), "t0"))>>),
    Object(<<E("1", Rec(1, "a", JStr("todo"), "t0")),
             E("2", Rec(2, "b", JStr("bogus"), "t0"))>>),
    Object(<<E("1", Rec(1, "a", JNull, "t0")),
             E("2", Rec(2, "b", JStr("todo"), "t0"))>>),
    Object(<<E("1", Rec(1, "a", JStr("todo"), "t0")), E("2", Scalar)>>),
    Object(<<E("1", Rec(1, "a", JStr("todo"), "t0")), E("2", NoField)>>) }

\* ---------------------------------------------------------------- Task
NoTask == [id |-> 0, description |-> "", status |-> JNull, created_at |-> ""]

\* Task.__init__ that falls back to TODO for a status naming no member
Task_default(task_id, description, status, created_at, now) ==
  [err |-> "none",
   task |-> [id |-> task_id,
             description |-> description,
             status |-> IF status.t # "str" THEN status
                        ELSE IF IsStatus(status) THEN TaskStatus(status) ELSE TODO,
             created_at |-> IF created_at = "" THEN now ELSE created_at]]

\* Task.__init__ of testfile.py: a str status is looked up in TaskStatus
\* (ValueError when it names no member), any other value is kept as it is;
\* a falsy created_at is replaced by the current time
Task(task_id, description, status, created_at, now) ==
  IF status.t = "str" /\ ~IsStatus(status)
  THEN [err |-> "ValueError", task |-> NoTask]
  ELSE [err |-> "none",
        task |-> [id |-> task_id,
                  description |-> description,
                  status |-> IF status.t = "str" THEN TaskStatus(status) ELSE status,
                  created_at |-> IF created_at = "" THEN now ELSE created_at]]

\* update_description that also resets the status
update_description_reset(task, new_description) ==
  [task EXCEPT !.description = new_description, !.status = TODO]

update_description(task, new_description) ==
  [task EXCEPT !.description = new_description]

task_mark_in_progress(task) == [task EXCEPT !.status = IN_PROGRESS]

task_mark_done(task) == [task EXCEPT !.status = DONE]

\* self.status.value raises AttributeError unless status is a member
ToDictRaises(task) == task.status \notin Members

to_dict(task) ==
  Rec(task.id, task.description, JStr(StatusValue(task.status)), task.created_at)

\* ---------------------------------------------------------------- store
\* the loop of load_tasks indexing each task under the key of the file
RECURSIVE LoadEntries_bykey(_, _, _, _)
LoadEntries_bykey(d, i, acc, now) ==
  IF i > Len(d) THEN [err |-> "none", tasks |-> acc]
  ELSE LET r == d[i].v
       IN CASE r.shape = "scalar" -> [err |-> "TypeError", tasks |-> acc]
            [] r.shape = "nofield" -> [err |-> "KeyError", tasks |-> acc]
            [] r.shape = "record" ->
                 LET c == Task(r.id, r.description, r.status, r.created_at, now)
                 IN IF c.err # "none"
                    THEN [err |-> c.err, tasks |-> acc]
                    ELSE LoadEntries_bykey(d, i + 1, DictSet(acc, d[i].k, c.task), now)

\* load_tasks over the entries from position i on; acc is self.tasks
RECURSIVE LoadEntries(_, _, _, _)
LoadEntries(d, i, acc, now) ==
  IF i > Len(d) THEN [err |-> "none", tasks |-> acc]
  ELSE LET r == d[i].v
       IN CASE r.shape = "scalar" -> [err |-> "TypeError", tasks |-> acc]
            [] r.shape = "nofield" -> [err |-> "KeyError", tasks |-> acc]
            [] r.shape = "record" ->
                 LET c == Task(r.id, r.description, r.status, r.created_at, now)
                 IN IF c.err # "none"
                    THEN [err |-> c.err, tasks |-> acc]
                    ELSE LoadEntries(d, i + 1, DictSet(acc, str(c.task.id), c.task), now)

\* load_tasks that treats a file it cannot read as an empty store
load_tasks_lenient(f, now) ==
  CASE f.kind \in {"absent", "garbage", "nonobject"} -> [err |-> "none", tasks |-> <<>>]
    [] f.kind = "object" ->
         LET r == LoadEntries(f.data, 1, <<>>, now)
         IN [err |-> "none", tasks |-> r.tasks]

load_tasks(f, now) ==
  CASE f.kind = "absent" -> [err |-> "none", tasks |-> <<>>]
    [] f.kind = "garbage" -> [err |-> "JSONDecodeError", tasks |-> <<>>]
    [] f.kind = "nonobject" -> [err |-> "AttributeError", tasks |-> <<>>]
    [] f.kind = "object" -> LoadEntries(f.data, 1, <<>>, now)

\* the dict comprehension of save_tasks, evaluated before the file is opened
SaveRaises(tasks) == \E i \in 1..Len(tasks) : ToDictRaises(tasks[i].v)

SaveData(tasks) == [i \in 1..Len(tasks) |-> E(tasks[i].k, to_dict(tasks[i].v))]

\* save_tasks that builds the data and never writes it
save_tasks_nowrite(tasks, f) ==
  IF SaveRaises(tasks)
  THEN [err |-> "AttributeError", file |-> f]
  ELSE [err |-> "none", file |-> f]

\* save_tasks that keeps the entries of the file whose keys it does not hold
save_tasks_merge(tasks, f) ==
  IF SaveRaises(tasks)
  THEN [err |-> "AttributeError", file |-> f]
  ELSE [err |-> "none",
        file |-> Object(SaveData(tasks) \o
                        SelectSeq(f.data, LAMBDA e : e.k \notin DictKeys(tasks)))]

\* save_tasks: the file after the call, and the exception it ends in
save_tasks(tasks, f) ==
  IF SaveRaises(tasks)
  THEN [err |-> "AttributeError", file |-> f]
  ELSE [err |-> "none", file |-> Object(SaveData(tasks))]

RECURSIVE SetMax(_)
SetMax(S) ==
  LET x == CHOOSE y \in S : TRUE
  IN IF S = {x} THEN x
     ELSE LET m == SetMax(S \ {x}) IN IF x > m THEN x ELSE m

\* get_next_id that counts the tasks instead of taking the largest key
get_next_id_count(tasks) == Len(tasks) + 1

get_next_id(tasks) ==
  IF tasks = <<>> THEN 1
  ELSE SetMax({int(k) : k \in DictKeys(tasks)}) + 1

get_task(tasks, task_id) ==
  IF DictHas(tasks, str(task_id))
  THEN [found |-> TRUE, task |-> DictGet(tasks, str(task_id))]
  ELSE [found |-> FALSE, task |-> NoTask]

\* list(self.tasks.values())
DictValues(d) == [i \in 1..Len(d) |-> d[i].v]

\* sorted(l, key=lambda t: t.id): stable, ascending by id
RECURSIVE sorted_by_id(_)
sorted_by_id(l) ==
  IF l = <<>> THEN <<>>
  ELSE LET x == l[Len(l)]
           r == sorted_by_id(SubSeq(l, 1, Len(l) - 1))
       IN SelectSeq(r, LAMBDA y : y.id <= x.id) \o <<x>> \o
          SelectSeq(r, LAMBDA y : y.id > x.id)

\* get_all_tasks that returns the tasks in dict order
get_all_tasks_unsorted(tasks) == DictValues(tasks)

get_all_tasks(tasks) == sorted_by_id(DictValues(tasks))

\* get_tasks_by_status that forgets the filter
get_tasks_by_status_all(tasks, status) ==
  IF status.t = "str" /\ ~IsStatus(status)
  THEN [err |-> "ValueError", out |-> <<>>]
  ELSE [err |-> "none", out |-> sorted_by_id(DictValues(tasks))]

\* get_tasks_by_status: a str status is looked up in TaskStatus (ValueError
\* when it names no member); the tasks with that status, ascending by id
get_tasks_by_status(tasks, status) ==
  IF status.t = "str" /\ ~IsStatus(status)
  THEN [err |-> "ValueError", out |-> <<>>]
  ELSE LET status_enum == IF status.t = "str" THEN TaskStatus(status) ELSE status
       IN [err |-> "none",
           out |-> sorted_by_id(SelectSeq(DictValues(tasks),
                                          LAMBDA t : t.status = status_enum))]

\* status arguments handed to get_tasks_by_status
StatusArgs == {JStr("todo"), JStr("in-progress"), JStr("done"), JStr("bogus"), DONE}

\* ---------------------------------------------------------------- state
VARIABLES
  file,      \* the backing file
  pc,        \* per store: "new" (no instance), "ready", "failed" (__init__ raised),
             \* "crashed" (an exception left CLI.run)
  module,    \* per store: the source file its classes come from
  tasks,     \* per store: self.tasks
  ev,        \* the operation performed by the last step and how it ended
  adds,      \* per store: ids returned by add_task, in call order
  runStart,  \* per store: Len(adds) at the last successful delete_task
  base,      \* per store: the file its load_tasks read
  muts,      \* per store: mutating calls that returned since construction
  argv,      \* sys.argv of the last step when it was CLI.run, <<>> otherwise
  nops       \* operations performed so far

vars == <<file, pc, module, tasks, ev, adds, runStart, base, muts, argv, nops>>

Event(p, op, id, desc, ret, err) ==
  [p |-> p, op |-> op, id |-> id, description |-> desc, ret |-> ret, err |-> err,
   status |-> JNull, out |-> <<>>]

\* a read: the status it was given and the list of tasks it returned
ReadEvent(p, op, id, status, ret, err, out) ==
  [p |-> p, op |-> op, id |-> id, description |-> "", ret |-> ret, err |-> err,
   status |-> status, out |-> out]

Init ==
  /\ file \in InitFiles
  /\ pc = [p \in Stores |-> "new"]
  /\ module = [p \in Stores |-> "none"]
  /\ tasks = [p \in Stores |-> <<>>]
  /\ ev = Event("A", "start", 0, "", "none", "none")
  /\ adds = [p \in Stores |-> <<>>]
  /\ runStart = [p \in Stores |-> 0]
  /\ base = [p \in Stores |-> Absent]
  /\ muts = [p \in Stores |-> 0]
  /\ argv = <<>>
  /\ nops = 0

Tick == nops < MaxOps /\ nops' = nops + 1

\* TaskTracker(filename) of testfile.py: __init__ runs load_tasks
ConstructTestfile(p) ==
  /\ pc[p] = "new"
  /\ Tick
  /\ argv' = <<>>
  /\ \E now \in Times :
       LET r == load_tasks(file, now)
       IN /\ pc' = [pc EXCEPT ![p] = IF r.err = "none" THEN "ready" ELSE "failed"]
          /\ tasks' = [tasks EXCEPT ![p] = IF r.err = "none" THEN r.tasks ELSE <<>>]
          /\ ev' = Event(p, "construct", 0, "", "none", r.err)
  /\ module' = [module EXCEPT ![p] = "testfile"]
  /\ base' = [base EXCEPT ![p] = file]
  /\ UNCHANGED <<file, adds, runStart, muts>>

\* TaskTracker(filename) of TaskTracker.py: load_tasks evaluates os.path.exist,
\* which os.path does not have
ConstructDraft(p) ==
  /\ pc[p] = "new"
  /\ Tick
  /\ argv' = <<>>
  /\ pc' = [pc EXCEPT ![p] = "failed"]
  /\ module' = [module EXCEPT ![p] = "TaskTracker"]
  /\ ev' = Event(p, "construct", 0, "", "none", "AttributeError")
  /\ UNCHANGED <<file, tasks, adds, runStart, base, muts>>

\* the outcome of a store call that mutated self.tasks into t and then saved
Saved(p, t, op, id, desc, ret) ==
  LET r == save_tasks(t, file)
  IN /\ tasks' = [tasks EXCEPT ![p] = t]
     /\ file' = r.file
     /\ ev' = Event(p, op, id, desc, IF r.err = "none" THEN ret ELSE "none", r.err)
     /\ muts' = [muts EXCEPT ![p] = IF r.err = "none" THEN @ + 1 ELSE @]

\* the outcome of a store call that found no task: nothing is touched
NotFound(p, op, id, desc) ==
  /\ ev' = Event(p, op, id, desc, "False", "none")
  /\ UNCHANGED <<file, tasks, muts>>

\* add_task(description) at time now: what it does to the store
AddCall(p, description, now) ==
  LET task_id == get_next_id(tasks[p])
      task == Task(task_id, description, TODO, "", now).task
      t == DictSet(tasks[p], str(task_id), task)
  IN /\ Saved(p, t, "add", task_id, description, "Task")
     /\ adds' = [adds EXCEPT ![p] =
                   IF save_tasks(t, file).err = "none" THEN Append(@, task_id) ELSE @]
     /\ UNCHANGED runStart

add_task(p) ==
  /\ pc[p] = "ready"
  /\ Tick
  /\ argv' = <<>>
  /\ get_next_id(tasks[p]) <= MaxId
  /\ \E description \in Descs, now \in Times : AddCall(p, description, now)
  /\ UNCHANGED <<pc, module, base>>

UpdateCall(p, task_id, new_description) ==
  LET g == get_task(tasks[p], task_id)
  IN /\ IF g.found
        THEN Saved(p, DictSet(tasks[p], str(task_id),
                              update_description(g.task, new_description)),
                   "update", task_id, new_description, "True")
        ELSE NotFound(p, "update", task_id, new_description)
     /\ UNCHANGED <<adds, runStart>>

update_task(p) ==
  /\ pc[p] = "ready"
  /\ Tick
  /\ argv' = <<>>
  /\ \E task_id \in ArgIds, new_description \in Descs :
       UpdateCall(p, task_id, new_description)
  /\ UNCHANGED <<pc, module, base>>

DeleteCall(p, task_id) ==
  /\ IF DictHas(tasks[p], str(task_id))
     THEN /\ Saved(p, DictDel(tasks[p], str(task_id)), "delete", task_id, "", "True")
          /\ runStart' = [runStart EXCEPT ![p] = Len(adds[p])]
     ELSE /\ NotFound(p, "delete", task_id, "")
          /\ UNCHANGED runStart
  /\ UNCHANGED adds

delete_task(p) ==
  /\ pc[p] = "ready"
  /\ Tick
  /\ argv' = <<>>
  /\ \E task_id \in ArgIds : DeleteCall(p, task_id)
  /\ UNCHANGED <<pc, module, base>>

MarkInProgressCall(p, task_id) ==
  LET g == get_task(tasks[p], task_id)
  IN /\ IF g.found
        THEN Saved(p, DictSet(tasks[p], str(task_id), task_mark_in_progress(g.task)),
                   "mark_in_progress", task_id, "", "True")
        ELSE NotFound(p, "mark_in_progress", task_id, "")
     /\ UNCHANGED <<adds, runStart>>

mark_in_progress(p) ==
  /\ pc[p] = "ready"
  /\ Tick
  /\ argv' = <<>>
  /\ \E task_id \in ArgIds : MarkInProgressCall(p, task_id)
  /\ UNCHANGED <<pc, module, base>>

MarkDoneCall(p, task_id) ==
  LET g == get_task(tasks[p], task_id)
  IN /\ IF g.found
        THEN Saved(p, DictSet(tasks[p], str(task_id), task_mark_done(g.task)),
                   "mark_done", task_id, "", "True")
        ELSE NotFound(p, "mark_done", task_id, "")
     /\ UNCHANGED <<adds, runStart>>

mark_done(p) ==
  /\ pc[p] = "ready"
  /\ Tick
  /\ argv' = <<>>
  /\ \E task_id \in ArgIds : MarkDoneCall(p, task_id)
  /\ UNCHANGED <<pc, module, base>>

\* what a read leaves alone in the store
StoreFrame == UNCHANGED <<file, tasks, adds, runStart, muts>>

\* a read leaves everything but the record of the call as it is
ReadFrame == StoreFrame /\ UNCHANGED <<pc, module, base>>

\* a call of get_task
Get(p) ==
  /\ pc[p] = "ready"
  /\ Tick
  /\ argv' = <<>>
  /\ \E task_id \in ArgIds :
       LET g == get_task(tasks[p], task_id)
       IN ev' = ReadEvent(p, "get", task_id, JNull, IF g.found THEN "Task" ELSE "None",
                          "none", IF g.found THEN <<g.task>> ELSE <<>>)
  /\ ReadFrame

ListAllCall(p) ==
  /\ ev' = ReadEvent(p, "list_all", 0, JNull, "list", "none", get_all_tasks(tasks[p]))
  /\ StoreFrame

\* a call of get_all_tasks that saves before it returns
ListAll_saving(p) ==
  /\ pc[p] = "ready"
  /\ Tick
  /\ argv' = <<>>
  /\ ev' = ReadEvent(p, "list_all", 0, JNull, "list", "none", get_all_tasks(tasks[p]))
  /\ file' = save_tasks(tasks[p], file).file
  /\ UNCHANGED <<pc, module, tasks, adds, runStart, base, muts>>

\* a call of get_all_tasks
ListAll(p) ==
  /\ pc[p] = "ready"
  /\ Tick
  /\ argv' = <<>>
  /\ ListAllCall(p)
  /\ UNCHANGED <<pc, module, base>>

ListByStatusCall(p, status) ==
  LET r == get_tasks_by_status(tasks[p], status)
  IN /\ ev' = ReadEvent(p, "list_by_status", 0, status,
                        IF r.err = "none" THEN "list" ELSE "none", r.err, r.out)
     /\ StoreFrame

\* a call of get_tasks_by_status
ListByStatus(p) ==
  /\ pc[p] = "ready"
  /\ Tick
  /\ argv' = <<>>
  /\ \E status \in StatusArgs : ListByStatusCall(p, status)
  /\ UNCHANGED <<pc, module, base>>

\* " ".join(l) of a non-empty list
RECURSIVE join(_)
join(l) == IF Len(l) = 1 THEN l[1] ELSE l[1] \o " " \o join(Tail(l))

\* int(s) raises ValueError unless s spells an integer
IsIntStr(s) == \E n \in 0..(MaxId + 1) : str(n) = s

\* command lines handed to CLI.run
Argvs ==
  { <<"task-cli">>,
    <<"task-cli", "add", "a">>,
    <<"task-cli", "add">>,
    <<"task-cli", "update", "1", "a", "b">>,
    <<"task-cli", "update", "x", "a">>,
    <<"task-cli", "update", "1">>,
    <<"task-cli", "delete", "1">>,
    <<"task-cli", "delete", "x">>,
    <<"task-cli", "delete">>,
    <<"task-cli", "mark-in-progress", "1">>,
    <<"task-cli", "mark-in-progress", "x">>,
    <<"task-cli", "mark-done", "2">>,
    <<"task-cli", "mark-done", "x">>,
    <<"task-cli", "list">>,
    <<"task-cli", "list", "done">>,
    <<"task-cli", "list", "bogus">>,
    <<"task-cli", "list", "">>,
    <<"task-cli", "frob">> }

\* what CLI.run printed when it called no store method: "help" (usage
\* only), or "Invalid command" / "Invalid arguments" followed by the usage
Usage(p, message) ==
  /\ ev' = Event(p, "run", 0, "", message, "none")
  /\ StoreFrame

\* list_command: a truthy status filters, None and "" list everything
list_command(p, status) ==
  IF status # ""
  THEN IF get_tasks_by_status(tasks[p], JStr(status)).err = "ValueError"
       THEN Usage(p, "Invalid arguments")
       ELSE ListByStatusCall(p, JStr(status))
  ELSE ListAllCall(p)

\* the body of CLI.run; args[1] is the program name, args[2] the command
RunArgs(p, args) ==
  IF Len(args) < 2 THEN Usage(p, "help")
  ELSE LET command == args[2]
       IN CASE command = "add" /\ Len(args) > 2 ->
                 /\ get_next_id(tasks[p]) <= MaxId
                 /\ \E now \in Times : AddCall(p, join(SubSeq(args, 3, Len(args))), now)
            [] command = "update" /\ Len(args) > 3 ->
                 IF IsIntStr(args[3])
                 THEN UpdateCall(p, int(args[3]), join(SubSeq(args, 4, Len(args))))
                 ELSE Usage(p, "Invalid arguments")
            [] command = "delete" /\ Len(args) > 2 ->
                 IF IsIntStr(args[3]) THEN DeleteCall(p, int(args[3]))
                 ELSE Usage(p, "Invalid arguments")
            [] command = "mark-in-progress" /\ Len(args) > 2 ->
                 IF IsIntStr(args[3]) THEN MarkInProgressCall(p, int(args[3]))
                 ELSE Usage(p, "Invalid arguments")
            [] command = "mark-done" /\ Len(args) > 2 ->
                 IF IsIntStr(args[3]) THEN MarkDoneCall(p, int(args[3]))
                 ELSE Usage(p, "Invalid arguments")
            [] command = "list" ->
                 list_command(p, IF Len(args) > 2 THEN args[3] ELSE "")
            [] OTHER -> Usage(p, "Invalid command")

\* CLI.run(sys.argv) on the store of the process; it catches ValueError and
\* IndexError, any other exception ends the process
run(p) ==
  /\ pc[p] = "ready"
  /\ nops < MaxOps /\ nops' = nops + 1
  /\ \E args \in Argvs :
       /\ RunArgs(p, args)
       /\ argv' = args
  /\ pc' = [pc EXCEPT ![p] = IF ev'.err = "none" THEN @ ELSE "crashed"]
  /\ UNCHANGED <<module, base>>

\* the process that owns the store ends (main returns, or the exception of
\* __init__ ends it); the next invocation constructs a new store
Exit(p) ==
  /\ pc[p] \in {"ready", "failed", "crashed"}
  /\ Tick
  /\ argv' = <<>>
  /\ pc' = [pc EXCEPT ![p] = "new"]
  /\ module' = [module EXCEPT ![p] = "none"]
  /\ tasks' = [tasks EXCEPT ![p] = <<>>]
  /\ adds' = [adds EXCEPT ![p] = <<>>]
  /\ runStart' = [runStart EXCEPT ![p] = 0]
  /\ base' = [base EXCEPT ![p] = Absent]
  /\ muts' = [muts EXCEPT ![p] = 0]
  /\ ev' = Event(p, "exit", 0, "", "none", "none")
  /\ UNCHANGED file

Next ==
  \E p \in Stores :
    \/ ConstructTestfile(p)
    \/ ConstructDraft(p)
    \/ add_task(p)
    \/ update_task(p)
    \/ delete_task(p)
    \/ mark_in_progress(p)
    \/ mark_done(p)
    \/ Get(p)
    \/ ListAll(p)
    \/ ListByStatus(p)
    \/ run(p)
    \/ Exit(p)

Spec == Init /\ [][Next]_vars

\* ---------------------------------------------------------------- properties
MutatingOps == {"add", "update", "delete", "mark_in_progress", "mark_done"}

FoundOps == {"update", "delete", "mark_in_progress", "mark_done"}

\* the step just taken was a mutating call that returned true / a Task
Returned == ev.op \in MutatingOps /\ ev.ret \in {"True", "Task"}

HeldIds(t) == {t[i].v.id : i \in 1..Len(t)}

\* the file f is an object of task records with exactly the ids of the
\* collection t and, for each id, its description, status and timestamp
Holds(f, t) ==
  /\ f.kind = "object"
  /\ Len(f.data) = Len(t)
  /\ \A j \in 1..Len(f.data) : f.data[j].v.shape = "record"
  /\ {f.data[j].v.id : j \in 1..Len(f.data)} = HeldIds(t)
  /\ \A i \in 1..Len(t) : \E j \in 1..Len(f.data) :
        /\ f.data[j].v.id = t[i].v.id
        /\ f.data[j].v.description = t[i].v.description
        /\ t[i].v.status \in Members
        /\ f.data[j].v.status = JStr(StatusValue(t[i].v.status))
        /\ f.data[j].v.created_at = t[i].v.created_at

\* C1: right after add, update, delete, markInProgress or markDone has
\* returned true / a Task, the backing file holds exactly the serialization
\* of the in-memory collection of the store that was called: the same ids
\* and, per id, the same description, status and creation timestamp.
C1_FileHoldsCollection == Returned => Holds(file, tasks[ev.p])

\* an update has returned true on a store of two tasks
C1_Witness ==
  /\ ev.op = "update" /\ ev.ret = "True"
  /\ Len(tasks[ev.p]) = 2
  /\ Holds(file, tasks[ev.p])

\* C2: within a run of add calls on one store with no delete in between,
\* the id an add returns is larger than every id returned earlier in the
\* run (so the ids are strictly increasing and pairwise distinct), and it
\* is the id of no task held by the store when add was called.
C2_AddIdsIncrease ==
  [][(ev'.op = "add" /\ ev'.ret = "Task") =>
       /\ ev'.id \notin HeldIds(tasks[ev'.p])
       /\ \A i \in (runStart[ev'.p] + 1)..Len(adds[ev'.p]) : adds[ev'.p][i] < ev'.id
       /\ adds'[ev'.p] = Append(adds[ev'.p], ev'.id)]_vars

\* a store has returned two ids, the second larger, from two adds in a row
C2_Witness ==
  \E p \in Stores :
    /\ Len(adds[p]) - runStart[p] >= 2
    /\ adds[p][Len(adds[p]) - 1] < adds[p][Len(adds[p])]
    /\ ev.op = "add" /\ ev.p = p

\* C3: the id an add returns differs from the id of every earlier add on
\* the store, deleted tasks included.
C3_IdsNeverReused ==
  \A p \in Stores : \A i, j \in 1..Len(adds[p]) : i < j => adds[p][i] # adds[p][j]

\* the collections a and b hold the same ids and, per id, the same
\* description, status and creation timestamp
SameCollection(a, b) ==
  /\ Len(a) = Len(b)
  /\ HeldIds(a) = HeldIds(b)
  /\ \A i \in 1..Len(a) : \E j \in 1..Len(b) : a[i].v = b[j].v

\* C4: for the collection a store holds after an add, update, delete or
\* mark call, save() succeeds and a store constructed afterwards on the
\* written file holds the same ids with the same description, status and
\* creation timestamp.
C4_RoundTrip ==
  \A p \in Stores :
    (pc[p] = "ready" /\ ev.p = p /\ ev.op \in MutatingOps) =>
      LET s == save_tasks(tasks[p], file)
      IN /\ s.err = "none"
         /\ \A now \in Times :
              LET l == load_tasks(s.file, now)
              IN l.err = "none" /\ SameCollection(l.tasks, tasks[p])

\* C5: constructing a store while the backing file is absent raises
\* nothing, yields an empty collection and leaves the file absent.
C5_AbsentFileLoadsEmpty ==
  [][(ev'.op = "construct" /\ file.kind = "absent") =>
       /\ ev'.err = "none"
       /\ pc'[ev'.p] = "ready"
       /\ tasks'[ev'.p] = <<>>
       /\ file' = file]_vars

\* the file exists and is no mapping of id to task record
Corrupt(f) ==
  \/ f.kind \in {"garbage", "nonobject"}
  \/ f.kind = "object" /\ \E i \in 1..Len(f.data) : f.data[i].v.shape # "record"

\* C6: constructing a store on a backing file that is not parseable as a
\* mapping of id to task record ends in an error that reaches the caller:
\* no store comes to exist, with an empty or a partial collection, and the
\* file is left as it was.
C6_CorruptFileRaises ==
  [][(ev'.op = "construct" /\ Corrupt(file)) =>
       /\ ev'.err # "none"
       /\ pc'[ev'.p] = "failed"
       /\ tasks'[ev'.p] = <<>>
       /\ file' = file]_vars

\* a construction on an object whose second value is no record has raised
C6_Witness ==
  /\ ev.op = "construct" /\ ev.err = "TypeError"
  /\ module[ev.p] = "testfile"
  /\ Corrupt(file)
  /\ pc[ev.p] = "failed"

\* some entry of the file carries a status string naming no member
UnknownStatus(f) ==
  /\ f.kind = "object"
  /\ \E i \in 1..Len(f.data) :
        /\ f.data[i].v.shape = "record"
        /\ f.data[i].v.status.t = "str"
        /\ f.data[i].v.status.v \notin {"todo", "in-progress", "done"}

\* C7: constructing a store on a file in which some entry has a status
\* string other than "todo", "in-progress", "done" ends in an error; the
\* load never completes, so the entry is never held with status Todo or
\* any other status.
C7_UnknownStatusRaises ==
  [][(ev'.op = "construct" /\ UnknownStatus(file)) =>
       /\ ev'.err # "none"
       /\ pc'[ev'.p] = "failed"
       /\ tasks'[ev'.p] = <<>>]_vars

\* Task.__init__ has raised ValueError while a file with "bogus" was loaded
C7_Witness ==
  /\ ev.op = "construct" /\ ev.err = "ValueError"
  /\ module[ev.p] = "testfile"
  /\ UnknownStatus(file)

\* C8: update, delete, markInProgress and markDone return false, raise
\* nothing and leave collection and file as they were when the id is not
\* held; they return true when it is held.
C8_FoundContract ==
  [][ev'.op \in FoundOps =>
       /\ ev'.err = "none"
       /\ IF ev'.id \in HeldIds(tasks[ev'.p])
          THEN ev'.ret = "True"
          ELSE ev'.ret = "False" /\ tasks' = tasks /\ file' = file]_vars

Other(p) == CHOOSE q \in Stores : q # p

\* two stores have read the same file, each has since returned from one
\* mutating call, and the step just taken is the later of the two saves
C9_Case ==
  /\ \A p \in Stores : pc[p] = "ready" /\ muts[p] = 1
  /\ base["A"] = base["B"]
  /\ Returned

\* C9 as stated: after two stores loaded the same file and each saved one
\* mutation, the file holds the collection of the store that saved last
\* and the mutation of the other store is absent from it.
C9_OtherMutationAbsent ==
  C9_Case => /\ Holds(file, tasks[ev.p])
             /\ ~Holds(file, tasks[Other(ev.p)])

\* C9 amended: the file holds exactly the collection of the store that
\* saved last, never a merge; the mutation of the other store is absent
\* from it whenever the two collections differ.
C9_LastWriterWins ==
  C9_Case => /\ Holds(file, tasks[ev.p])
             /\ (~SameCollection(tasks["A"], tasks["B"]) =>
                   ~Holds(file, tasks[Other(ev.p)]))

\* both stores saved, the collections differ, the later save stands
C9_Witness ==
  /\ C9_Case
  /\ ~SameCollection(tasks["A"], tasks["B"])
  /\ Holds(file, tasks[ev.p])
  /\ Len(tasks[Other(ev.p)]) > Len(tasks[ev.p])

\* C10: add returns a task whose id is 1 on an empty collection and 1 + the
\* largest held id otherwise, with status Todo and the given description;
\* get(id) then returns that task, and every task held before is still
\* held, unchanged.
C10_AddContract ==
  [][ev'.op = "add" =>
       LET t == tasks[ev'.p]
           t2 == tasks'[ev'.p]
           g == get_task(t2, ev'.id)
       IN /\ ev'.ret = "Task"
          /\ ev'.id = IF t = <<>> THEN 1 ELSE 1 + SetMax(HeldIds(t))
          /\ g.found
          /\ g.task.id = ev'.id
          /\ g.task.status = TODO
          /\ g.task.description = ev'.description
          /\ \A i \in 1..Len(t) :
                get_task(t2, t[i].v.id) = [found |-> TRUE, task |-> t[i].v]]_vars

\* the tasks of t other than the one with the given id are held by t2 under
\* the same key, unchanged
OthersKept(t, t2, id) ==
  \A i \in 1..Len(t) :
    t[i].v.id # id => DictHas(t2, t[i].k) /\ DictGet(t2, t[i].k) = t[i].v

\* C11: delete(id) of a held id returns true, after which get(id) finds
\* nothing and every other task is still held, unchanged; a second
\* delete(id) right after it returns false and changes neither the
\* collection nor the file.
C11_DeleteContract ==
  [][ev'.op = "delete" =>
       LET t == tasks[ev'.p]
           t2 == tasks'[ev'.p]
       IN /\ ev'.id \in HeldIds(t) =>
               /\ ev'.ret = "True"
               /\ ~get_task(t2, ev'.id).found
               /\ OthersKept(t, t2, ev'.id)
          /\ (ev.op = "delete" /\ ev.ret = "True" /\ ev.p = ev'.p /\ ev.id = ev'.id) =>
               /\ ev'.ret = "False"
               /\ tasks' = tasks
               /\ file' = file]_vars

MarkOps == {"mark_in_progress", "mark_done"}

MarkTarget(op) == IF op = "mark_done" THEN DONE ELSE IN_PROGRESS

\* C12: markDone(id) / markInProgress(id) of a held task whose status is
\* Todo, InProgress or Done returns true and leaves get(id) with status
\* Done / InProgress; the same call made again right after it returns true
\* and leaves the collection and the file as the first call left them.
C12_MarkContract ==
  [][ev'.op \in MarkOps =>
       LET g == get_task(tasks[ev'.p], ev'.id)
           g2 == get_task(tasks'[ev'.p], ev'.id)
       IN /\ (g.found /\ g.task.status \in Members) =>
               /\ ev'.ret = "True"
               /\ g2.found
               /\ g2.task.status = MarkTarget(ev'.op)
          /\ (ev.op = ev'.op /\ ev.ret = "True" /\ ev.p = ev'.p /\ ev.id = ev'.id) =>
               /\ ev'.ret = "True"
               /\ tasks' = tasks
               /\ file' = file]_vars

\* the list l is in strictly ascending id order
Ascending(l) == \A i, j \in 1..Len(l) : i < j => l[i].id < l[j].id

\* the list l holds exactly the tasks of the set S, each once
ExactlyOnce(l, S) == {l[i] : i \in 1..Len(l)} = S /\ Len(l) = Cardinality(S)

HeldTasks(t) == {t[i].v : i \in 1..Len(t)}

\* C13: listAll() returns every held task exactly once, in strictly
\* ascending id order, whatever the order of insertion or loading.
C13_ListAllSorted ==
  ev.op = "list_all" =>
    /\ Len(ev.out) = Len(tasks[ev.p])
    /\ ExactlyOnce(ev.out, HeldTasks(tasks[ev.p]))
    /\ Ascending(ev.out)

\* listAll() on a store that holds task 2 before task 1 in its dict
C13_Witness ==
  /\ ev.op = "list_all"
  /\ Len(tasks[ev.p]) >= 2
  /\ tasks[ev.p][1].v.id > tasks[ev.p][2].v.id
  /\ ev.out[1].id < ev.out[2].id

\* C14: listByStatus(s) for s one of the three statuses returns exactly the
\* held tasks whose status is s, in ascending id order; for a status string
\* outside the enumeration it ends in an error and returns no list; either
\* way the collection and the file are unchanged.
C14_ListByStatus ==
  [][ev'.op = "list_by_status" =>
       /\ tasks' = tasks
       /\ file' = file
       /\ IF IsStatus(ev'.status)
          THEN /\ ev'.err = "none"
               /\ ev'.ret = "list"
               /\ ExactlyOnce(ev'.out, {x \in HeldTasks(tasks[ev'.p]) :
                                         x.status = TaskStatus(ev'.status)})
               /\ Ascending(ev'.out)
          ELSE ev'.err # "none" /\ ev'.ret = "none"]_vars

\* listByStatus("done") has returned one of two held tasks
C14_Witness ==
  /\ ev.op = "list_by_status"
  /\ ev.status = JStr("done")
  /\ Len(ev.out) = 1
  /\ Len(tasks[ev.p]) = 2

ReadOps == {"get", "list_all", "list_by_status"}

\* C15: get(id), listAll() and listByStatus(status) leave the in-memory
\* collection and the backing file unchanged; a read on a store whose file
\* is absent does not create the file.
C15_ReadsDoNotMutate ==
  [][ev'.op \in ReadOps => tasks' = tasks /\ file' = file]_vars

\* listAll() has returned on a store whose file is absent
C15_Witness ==
  /\ ev.op = "list_all"
  /\ pc[ev.p] = "ready"
  /\ file.kind = "absent"

IdCommands == {"update", "delete", "mark-in-progress", "mark-done"}

\* the command line carries a non-numeric id, lacks a required argument,
\* gives list a status filter outside the enumeration, or names no command
InvalidInput(args) ==
  /\ Len(args) >= 2
  /\ \/ args[2] \in IdCommands /\ Len(args) >= 3 /\ ~IsIntStr(args[3])
     \/ args[2] \in (IdCommands \cup {"add"}) /\ Len(args) = 2
     \/ args[2] = "update" /\ Len(args) = 3
     \/ args[2] = "list" /\ Len(args) >= 3 /\ args[3] \notin {"todo", "in-progress", "done"}
     \/ args[2] \notin (IdCommands \cup {"add", "list"})

\* C16: a command invocation with a non-numeric id, a missing required
\* argument, an unrecognized status filter for list or an unrecognized
\* command ends normally after reporting invalid input and showing usage,
\* and changes neither the collection nor the file.
C16_InvalidInputReported ==
  [][(argv' # <<>> /\ InvalidInput(argv')) =>
       /\ ev'.op = "run"
       /\ ev'.ret \in {"Invalid command", "Invalid arguments"}
       /\ ev'.err = "none"
       /\ pc' = pc
       /\ tasks' = tasks
       /\ file' = file]_vars

\* C17: every task held by a store has a status that is one of Todo,
\* InProgress, Done, also after loading a file whose records carry any
\* JSON value in the status field.
C17_StatusInEnumeration ==
  \A p \in Stores : \A i \in 1..Len(tasks[p]) : tasks[p][i].v.status \in Members

\* the task with the given id in t, as a set (empty when it is not held)
TaskOf(t, id) == {x \in HeldTasks(t) : x.id = id}

\* C18: update(id, text) changes only the description of task id, the
\* marks change only its status, add changes no held task, delete removes
\* only task id; the id and createdAt of a held task never change, and the
\* tasks a call does not name keep their description and status.
C18_FrameOfMutations ==
  [][/\ \A p \in Stores : (pc[p] = "ready" /\ pc'[p] # "new") =>
          \A x \in HeldTasks(tasks[p]) : \A y \in HeldTasks(tasks'[p]) :
            y.id = x.id => y.created_at = x.created_at
     /\ ev'.op \in MutatingOps =>
       LET t == tasks[ev'.p]
           t2 == tasks'[ev'.p]
           id == ev'.id
       IN /\ \A q \in Stores \ {ev'.p} : tasks'[q] = tasks[q]
          /\ OthersKept(t, t2, id)
          /\ \A y \in HeldTasks(t2) : y.id # id => y \in HeldTasks(t)
          /\ \A x \in TaskOf(t, id) : \A y \in TaskOf(t2, id) :
                /\ y.created_at = x.created_at
                /\ ev'.op = "update" => y.status = x.status
                /\ ev'.op \in MarkOps => y.description = x.description
          /\ ev'.op = "add" => TaskOf(t, id) = {}
          /\ ev'.op = "delete" => TaskOf(t2, id) = {}]_vars

\* an update has changed the description of one of two held tasks
C18_Witness ==
  /\ ev.op = "update" /\ ev.ret = "True"
  /\ Len(tasks[ev.p]) = 2
  /\ \E x \in TaskOf(tasks[ev.p], ev.id) : x.description = ev.description
  /\ \E i \in 1..Len(base[ev.p].data) :
        /\ base[ev.p].data[i].v.id = ev.id
        /\ base[ev.p].data[i].v.description # ev.description

\* C19: each key of the in-memory mapping is the string form of the id of
\* the task stored under it, so no id is held under two keys; a record
\* loaded from under another top-level key is indexed by its id field, and
\* two file entries with the same id field become one held task.
C19_KeyIsStrOfId ==
  \A p \in Stores :
    /\ \A i \in 1..Len(tasks[p]) : tasks[p][i].k = str(tasks[p][i].v.id)
    /\ Cardinality(HeldIds(tasks[p])) = Len(tasks[p])
    /\ Cardinality(DictKeys(tasks[p])) = Len(tasks[p])

\* a store has loaded two entries, keyed "9" and "8", that both carry id 1
C19_Witness ==
  \E p \in Stores :
    /\ pc[p] = "ready"
    /\ Len(base[p].data) = 2
    /\ base[p].data[1].k = "9"
    /\ base[p].data[1].v.id = base[p].data[2].v.id
    /\ Len(tasks[p]) >= 1
    /\ tasks[p][1].k = "1"
    /\ tasks[p][1].v.description = "b"
====
